---- MODULE Spec2Model ----
(***************************************************************************)
(* Attitude-estimator comparison harness (examples/sim.py): a Simulator    *)
(* process publishes truth and gyro messages on a discrete-event core,     *)
(* three AttitudeEstimators (MRP-RIEKF, quaternion-RIEKF, MEKF) propagate  *)
(* their state on every gyro message.                                      *)
(*                                                                         *)
(* Real numbers are fixed-point integers: a quantity v (rad, rad/s, s) is  *)
(* the integer v*S, a covariance-factor entry w is w*S*S, and every        *)
(* division truncates toward zero.                                         *)
(***************************************************************************)
EXTENDS Integers, Sequences, FiniteSets, TLC

----------------------------------------------------------------------------
(* Fixed-point arithmetic *)

\* the fixed-point unit: 1.0 is S, one second is S clock ticks (ms)
S == 10 * 10 * 10
\* unit of the covariance factor W and of Q (a product of two S-scaled values)
SW == S * S

\* largest magnitude of a W derivative entry that is still a finite number
Huge == 300000000

Sgn(a) == IF a < 0 THEN -1 ELSE 1
Abs(a) == IF a < 0 THEN -a ELSE a

\* a / b, truncated toward zero
TDiv(a, b) == Sgn(a) * Sgn(b) * (Abs(a) \div Abs(b))

\* (a * b) / c, truncated toward zero, without forming a * b
MulDiv(a, b, c) ==
    Sgn(a) * Sgn(b) * ((Abs(a) \div c) * Abs(b) + ((Abs(a) % c) * Abs(b)) \div c)

\* product of two S-scaled values, S-scaled
Mul(a, b) == MulDiv(a, b, S)

\* floor(a * 10^k / c) for a >= 0, c > 0, by long division
RECURSIVE DivScaled(_, _, _)
DivScaled(a, k, c) ==
    IF k = 0 THEN a \div c
    ELSE (a \div c) * 10^k + DivScaled((a % c) * 10, k - 1, c)

Clamp(v) == IF v > Huge THEN Huge ELSE IF v < -Huge THEN -Huge ELSE v

Zero3 == <<0, 0, 0>>

\* Op applied to the value of v, v evaluated once
Let(v, Op(_)) == CHOOSE r \in {Op(u) : u \in {v}} : TRUE

\* << E(o + 1), ..., E(o + 6) >>
Six(E(_), o) == << E(o + 1), E(o + 2), E(o + 3), E(o + 4), E(o + 5), E(o + 6) >>

\* << E(1), ..., E(n) >> for a state vector (n = 7) or a 6 x 6 matrix stored
\* row by row (n = 36)
Vec(n, E(_)) ==
    IF n = 7 THEN Six(E, 0) \o << E(7) >>
    ELSE Six(E, 0) \o Six(E, 6) \o Six(E, 12) \o Six(E, 18) \o Six(E, 24)
         \o Six(E, 30)

----------------------------------------------------------------------------
(* pyecca2.util.rk4 and pyecca2.rotation *)

\* the four stage points and stage derivatives of one RK4 step of y' = f(t, y)
rk4_stages(f(_, _), t, y, h) ==
    Let(f(t, y), LAMBDA k1 :
    Let(Vec(Len(y), LAMBDA d : y[d] + MulDiv(k1[d], h, 2 * S)), LAMBDA y2 :
    Let(f(t + h \div 2, y2), LAMBDA k2 :
    Let(Vec(Len(y), LAMBDA d : y[d] + MulDiv(k2[d], h, 2 * S)), LAMBDA y3 :
    Let(f(t + h \div 2, y3), LAMBDA k3 :
    Let(Vec(Len(y), LAMBDA d : y[d] + MulDiv(k3[d], h, S)), LAMBDA y4 :
    Let(f(t + h, y4), LAMBDA k4 :
        [y |-> <<y, y2, y3, y4>>, k |-> <<k1, k2, k3, k4>>])))))))

\* y + h/6 (k1 + 2 k2 + 2 k3 + k4)
rk4_combine(y, k, h) ==
    Vec(Len(y), LAMBDA d :
        y[d] + MulDiv(k[1][d] + 2 * k[2][d] + 2 * k[3][d] + k[4][d], h, 6 * S))

rk4(f(_, _), t, y, h) ==
    Let(rk4_stages(f, t, y, h), LAMBDA st : rk4_combine(y, st.k, h))

\* Quat.derivative: qdot = 1/2 q (x) (0, w)
quat_derivative(q, w) ==
    << TDiv(-(Mul(q[2], w[1]) + Mul(q[3], w[2]) + Mul(q[4], w[3])), 2),
       TDiv(Mul(q[1], w[1]) + Mul(q[3], w[3]) - Mul(q[4], w[2]), 2),
       TDiv(Mul(q[1], w[2]) + Mul(q[4], w[1]) - Mul(q[2], w[3]), 2),
       TDiv(Mul(q[1], w[3]) + Mul(q[2], w[2]) - Mul(q[3], w[1]), 2) >>

\* |r|^2 of the rotation block of an MRP, S-scaled
mrp_norm_sq(r) == Mul(r[1], r[1]) + Mul(r[2], r[2]) + Mul(r[3], r[3])

\* Mrp.derivative: rdot = 1/4 ((1 - |r|^2) w + 2 r x w + 2 (r.w) r); the
\* shadow flag (4th entry) has derivative 0
mrp_derivative(r, w) ==
    LET n   == mrp_norm_sq(r)
        dot == Mul(r[1], w[1]) + Mul(r[2], w[2]) + Mul(r[3], w[3])
        cr  == << Mul(r[2], w[3]) - Mul(r[3], w[2]),
                  Mul(r[3], w[1]) - Mul(r[1], w[3]),
                  Mul(r[1], w[2]) - Mul(r[2], w[1]) >>
        d(i) == TDiv(Mul(S - n, w[i]) + 2 * cr[i] + 2 * Mul(dot, r[i]), 4)
    IN  << d(1), d(2), d(3), 0 >>

\* exact |r|^2 in units of 1/SW
mrp_norm_sq_exact(r) == r[1] * r[1] + r[2] * r[2] + r[3] * r[3]

\* Mrp.shadow: -r / |r|^2, the shadow flag toggled
mrp_shadow(r) ==
    LET n2 == mrp_norm_sq_exact(r)
        s(i) == -Sgn(r[i]) * DivScaled(Abs(r[i]) * S, 3, n2)
    IN  << s(1), s(2), s(3), 1 - r[4] >>

\* Mrp.shadow_if_required: the shadow set when |r| > 1, r itself otherwise
shadow_if_required(r) ==
    IF mrp_norm_sq_exact(r) > SW THEN mrp_shadow(r) ELSE r

\* x[:4] of a 7-vector
Rot(x) == << x[1], x[2], x[3], x[4] >>
\* x[4:7]
Bias(x) == << x[5], x[6], x[7] >>

\* Dcm.from_quat: the rotation matrix of a quaternion, as rows
dcm_from_quat(q) ==
    LET a == q[1]  b == q[2]  c == q[3]  d == q[4]
    IN  << << Mul(a, a) + Mul(b, b) - Mul(c, c) - Mul(d, d),
              2 * (Mul(b, c) - Mul(a, d)),
              2 * (Mul(b, d) + Mul(a, c)) >>,
           << 2 * (Mul(b, c) + Mul(a, d)),
              Mul(a, a) - Mul(b, b) + Mul(c, c) - Mul(d, d),
              2 * (Mul(c, d) - Mul(a, b)) >>,
           << 2 * (Mul(b, d) - Mul(a, c)),
              2 * (Mul(c, d) + Mul(a, b)),
              Mul(a, a) - Mul(b, b) - Mul(c, c) + Mul(d, d) >> >>

\* wedge(r): the skew-symmetric matrix of a 3-vector, as rows
wedge(v) == << << 0, -v[3], v[2] >>, << v[3], 0, -v[1] >>, << -v[2], v[1], 0 >> >>

\* Dcm.from_mrp: I + (8 X^2 - 4 (1 - |r|^2) X) / (1 + |r|^2)^2, X = wedge(r)
dcm_from_mrp(r) ==
    LET n   == mrp_norm_sq(r)
        X   == wedge(r)
        den == Mul(S + n, S + n)
        Xsq(i, j) == Mul(r[i], r[j]) - (IF i = j THEN n ELSE 0)
        e(i, j) == (IF i = j THEN S ELSE 0)
                   + MulDiv(8 * Xsq(i, j) - 4 * Mul(S - n, X[i][j]), S, den)
    IN  << << e(1, 1), e(1, 2), e(1, 3) >>,
           << e(2, 1), e(2, 2), e(2, 3) >>,
           << e(3, 1), e(3, 2), e(3, 3) >> >>

\* Quat.from_mrp: q = ((1 - |r|^2), 2 r) / (1 + |r|^2)
quat_from_mrp(r) ==
    LET n == mrp_norm_sq(r)
    IN  << MulDiv(S - n, S, S + n), MulDiv(2 * r[1], S, S + n),
           MulDiv(2 * r[2], S, S + n), MulDiv(2 * r[3], S, S + n) >>

----------------------------------------------------------------------------
(* mrp_derivation, quat_derivation, mekf_derivation *)

Kinds == {"mrp", "quat", "mekf"}

\* error-state dimension
n_e == 6
Idx == 1 .. n_e

\* estimator noise parameters handed to predict (0.01, S-scaled)
std_gyro == 10
sn_gyro_rw == 10

\* Q = diag(std_gyro^2 x3, std_gyro_rw^2 x3), std_gyro_rw = sn_gyro_rw / sqrt(dt);
\* a step dt <= 0 has no finite std_gyro_rw
Q(std, sn, dt) ==
    LET g  == std * std
        rw == IF dt > 0 THEN TDiv(sn * sn * S, dt) ELSE Huge
    IN  << g, g, g, rw, rw, rw >>

\* xdot = vertcat(rotation.derivative(omega - b_g + w_g), w_b)
xdot(kind, x, omega, w_g, w_b) ==
    LET w == << omega[1] - x[5] + w_g[1], omega[2] - x[6] + w_g[2],
                omega[3] - x[7] + w_g[3] >>
        d == IF kind = "mrp" THEN mrp_derivative(Rot(x), w)
                             ELSE quat_derivative(Rot(x), w)
    IN  d \o w_b

\* x[:4] = Mrp(x[:4]).shadow_if_required()
shadow_block(x) == shadow_if_required(Rot(x)) \o Bias(x)

\* state propagation with noise: rk4 of xdot with w_g, w_b; the MRP
\* derivation applies shadow_if_required to the rotation block
x1_sim(kind, t, x, omega, w_g, w_b, dt) ==
    Let(rk4(LAMBDA tt, xx : xdot(kind, xx, omega, w_g, w_b), t, x, dt),
        LAMBDA y : IF kind = "mrp" THEN shadow_block(y) ELSE y)

\* the same with the rotation block left as integrated
x1_noshadow(kind, t, x, omega, dt) ==
    rk4(LAMBDA tt, xx : xdot(kind, xx, omega, Zero3, Zero3), t, x, dt)

\* the same with omega handed in as the bias noise
x1_biasdrift(kind, t, x, omega, dt) ==
    Let(rk4(LAMBDA tt, xx : xdot(kind, xx, omega, Zero3, omega), t, x, dt),
        LAMBDA y : IF kind = "mrp" THEN shadow_block(y) ELSE y)

\* state propagation without noise: rk4 of xdot with zeros(3), zeros(3)
x1(kind, t, x, omega, dt) ==
    Let(rk4(LAMBDA tt, xx : xdot(kind, xx, omega, Zero3, Zero3), t, x, dt),
        LAMBDA y : IF kind = "mrp" THEN shadow_block(y) ELSE y)

\* the 'simulate' function each derivation returns: x1_sim for MRP, x1 for
\* the quaternion RIEKF and the MEKF
simulate(kind, t, x, omega, w_g, w_b, dt) ==
    IF kind = "mrp" THEN x1_sim(kind, t, x, omega, w_g, w_b, dt)
                    ELSE x1(kind, t, x, omega, dt)

\* entry (i, j) of a 6 x 6 matrix stored row by row
At(M, i, j) == M[(i - 1) * n_e + j]
Row(p) == ((p - 1) \div n_e) + 1
Col(p) == ((p - 1) % n_e) + 1

\* F = jacobian(f, eta) at eta = 0, S-scaled:
\*   RIEKF: f = (-Dcm(x) eta_b, w_b)                      F = [[0, -R], [0, 0]]
\*   MEKF:  f = (-(I - exp(eta_r))(omega - b) - exp(eta_r) eta_b, w_b)
\*                                        F = [[-wedge(omega - b), -I], [0, 0]]
F(kind, x, omega) ==
    Let(IF kind = "mrp" THEN dcm_from_mrp(Rot(x)) ELSE dcm_from_quat(Rot(x)),
        LAMBDA R :
    Let(wedge(<< omega[1] - x[5], omega[2] - x[6], omega[3] - x[7] >>),
        LAMBDA wb :
        Vec(n_e * n_e, LAMBDA p :
            IF Row(p) > 3 THEN 0
            ELSE IF kind = "mekf"
                 THEN IF Col(p) <= 3 THEN -wb[Row(p)][Col(p)]
                      ELSE IF Col(p) = Row(p) + 3 THEN -S ELSE 0
                 ELSE IF Col(p) <= 3 THEN 0 ELSE -R[Row(p)][Col(p) - 3])))

\* (Q_i / 2) / W_ii in W units; saturates at Huge
half_q_over(q, w) ==
    IF w = 0 THEN Huge
    ELSE IF q \div (2 * Abs(w)) >= Huge \div SW THEN Sgn(w) * Huge
    ELSE Sgn(w) * DivScaled(q, 6, 2 * Abs(w))

\* entry (i, j), j <= i, of sqrt_covariance_predict(W, F, Q) = F W + Q/2 W^-T;
\* W^-T is upper triangular with diagonal 1 / W_ii
sqrt_covariance_predict(W, FF, QQ, i, j) ==
    LET fw == Mul(At(W, 1, j), At(FF, i, 1)) + Mul(At(W, 2, j), At(FF, i, 2))
            + Mul(At(W, 3, j), At(FF, i, 3)) + Mul(At(W, 4, j), At(FF, i, 4))
            + Mul(At(W, 5, j), At(FF, i, 5)) + Mul(At(W, 6, j), At(FF, i, 6))
    IN  Clamp(fw + (IF i = j THEN half_q_over(QQ[i], At(W, i, i)) ELSE 0))

\* W_dot_lt = tril(sqrt_covariance_predict(W, F, Q)), built from the step's
\* starting state x; FQ is <<F, Q>>
tril_of_predict(W, FQ) ==
    Vec(n_e * n_e, LAMBDA p :
        IF Col(p) <= Row(p)
        THEN sqrt_covariance_predict(W, FQ[1], FQ[2], Row(p), Col(p))
        ELSE 0)

W_dot_lt(kind, x, W, std, sn, omega, dt) ==
    tril_of_predict(W, << F(kind, x, omega), Q(std, sn, dt) >>)

\* a W whose derivative is a finite number: no zero on the diagonal, no
\* saturated entry
WFiniteAt(W, Wd) ==
    /\ \A i \in Idx : At(W, i, i) # 0
    /\ \A p \in DOMAIN Wd : Abs(Wd[p]) < Huge

\* W1 = rk4(W_dot_lt, t, W, dt), with the stages it went through; F and Q do
\* not change within the step
W1_stages(kind, t, x, W, omega, std, sn, dt) ==
    Let(<< F(kind, x, omega), Q(std, sn, dt) >>, LAMBDA FQ :
        rk4_stages(LAMBDA tt, y : tril_of_predict(y, FQ), t, W, dt))

\* predict: [x1, W1]; ok tells whether every stage of the W step was finite
predict(kind, t, x, W, omega, std, sn, dt) ==
    Let(W1_stages(kind, t, x, W, omega, std, sn, dt), LAMBDA st :
        [x1 |-> x1(kind, t, x, omega, dt),
         W1 |-> rk4_combine(W, st.k, dt),
         ok |-> dt > 0 /\ \A i \in 1 .. 4 : WFiniteAt(st.y[i], st.k[i])])

\* get_state: [q, b_g]
get_state(kind, x) ==
    [q   |-> IF kind = "mrp" THEN quat_from_mrp(Rot(x)) ELSE Rot(x),
     b_g |-> Bias(x)]

\* constants: [x0, W0], W0 = 1e-3 * eye(n_e)
constants(kind) ==
    [x0 |-> IF kind = "mrp" THEN <<0, 0, 0, 0, 0, 0, 0>>
                            ELSE <<S, 0, 0, 0, 0, 0, 0>>,
     W0 |-> Vec(n_e * n_e, LAMBDA p : IF Row(p) = Col(p) THEN SW \div 1000 ELSE 0)]

----------------------------------------------------------------------------
(* Bounds *)

\* most simulator cycles a run holds: until <= MaxCycles * sim/dt
MaxCycles == 3
\* most Imu messages fed to the estimators in ImuSpec
MaxMsgs == 3

\* sim/dt values (ms): the default 1/200 s and a coarse 0.1 s
SimDtVals == {S \div 200, S \div 10}
\* run(until = tf): tf from a fraction of one period to MaxCycles periods,
\* on and off the period grid
UntilVals(d) == {1, MaxCycles * d - d \div 2, MaxCycles * d}

\* sin of an angle a >= 0 in S-scaled radians, S-scaled: the angle is reduced
\* to [-pi/2, pi/2], the series is summed to the a^7 term, and the sum is kept
\* within [-1, 1]
Pi == 3142
Sin(a) ==
    LET y == ((a + Pi) % (2 * Pi)) - Pi
        z == IF 2 * y > Pi THEN Pi - y ELSE IF 2 * y < -Pi THEN -Pi - y ELSE y
        z2 == Mul(z, z)
        z3 == Mul(z2, z)
        z5 == Mul(z3, z2)
        z7 == Mul(z5, z2)
        v == z - TDiv(z3, 6) + TDiv(z5, 120) - TDiv(z7, 5040)
    IN  IF v > S THEN S ELSE IF v < -S THEN -S ELSE v

\* omega at core time t (ms): 10 (1 + sin(2 pi f t + phase)) with
\* f = 0.1, 0.2, 0.3 Hz and phase = 1, 2, 3 rad
omega_at(t) ==
    << 10 * (S + Sin(MulDiv(2 * Pi * t, 1, 10 * S) + 1 * S)),
       10 * (S + Sin(MulDiv(2 * Pi * t, 2, 10 * S) + 2 * S)),
       10 * (S + Sin(MulDiv(2 * Pi * t, 3, 10 * S) + 3 * S)) >>

\* angular rates handed to simulate when it is applied on its own
OmegaVals == {omega_at(0), omega_at(2 * S)}
\* the three randn(3) draws of one cycle: for w_g, for w_b, for the gyro
RandnVals == {[g |-> Zero3, b |-> Zero3, n |-> Zero3],
              [g |-> <<S, -S, 2 * S>>, b |-> <<-2 * S, S, S>>,
               n |-> <<-S, 2 * S, S>>]}
\* timestamps and rates of Imu messages fed directly to the estimators
ImuTimeVals == {0, S \div 200, S \div 10}
GyroVals == {<<20 * S, 20 * S, 20 * S>>, <<-5 * S, 0, 3 * S>>}

----------------------------------------------------------------------------
(* State *)

VARIABLES
    now,            \* core.now, ms
    until,          \* core.run(until = tf)
    wake,           \* time of the Simulator process's pending event
    pc,             \* where control is
    ret,            \* where control returns when publish('imu') has delivered
    next_sub,       \* position in the imu topic's subscriber list
    sim_dt,         \* Param sim/dt
    sim_x,          \* Simulator.run: x
    sim_omega,      \* Simulator.run: omega
    rnd,            \* the randn draws of the current cycle
    est,            \* the AttitudeEstimators, by name
    msg_sim_state,  \* Simulator.msg_sim_state
    msg_imu,        \* Simulator.msg_imu
    msg_state,      \* AttitudeEstimator.msg_state, by name
    msg_est_status, \* AttitudeEstimator.msg_est_status, by name
    published,      \* every publish call so far: [topic, time]
    probe           \* a direct call of simulate: arguments and result

vars == << now, until, wake, pc, ret, next_sub, sim_dt, sim_x, sim_omega, rnd,
           est, msg_sim_state, msg_imu, msg_state, msg_est_status, published,
           probe >>

\* do_sim: the estimators in construction order, each with its equations
EstNames == {"est1", "est2", "est3"}
Eqs == [est1 |-> "mrp", est2 |-> "quat", est3 |-> "mekf"]

\* the imu topic's subscribers, in subscription order
ImuSubscribers_swapped == << "est2", "est1", "est3" >>
ImuSubscribers == << "est1", "est2", "est3" >>

StateTopic == [est1 |-> "est1_state", est2 |-> "est2_state", est3 |-> "est3_state"]
StatusTopic == [est1 |-> "est1_status", est2 |-> "est2_status",
                est3 |-> "est3_status"]

\* the nominal period substituted for a step dt <= 0: 1.0 / 200
NominalDt == S \div 200

\* Param sim/w_gyro = 0.1
w_gyro == 100

\* omega + w_gyro * randn(3)
noisy_gyro(omega, r) ==
    << omega[1] + Mul(w_gyro, r[1]), omega[2] + Mul(w_gyro, r[2]),
       omega[3] + Mul(w_gyro, r[3]) >>

\* randn(3) * 1e-3
process_noise(r) == << TDiv(r[1], 1000), TDiv(r[2], 1000), TDiv(r[3], 1000) >>

\* dt = t - t_last_imu; if dt <= 0: dt = 1.0 / 200
step_dt_strict(t, t_last_imu) ==
    IF t - t_last_imu < 0 THEN NominalDt ELSE t - t_last_imu
step_dt(t, t_last_imu) ==
    IF t - t_last_imu <= 0 THEN NominalDt ELSE t - t_last_imu

\* simpy.Timeout(core, delay): the time the process resumes
Timeout_back(t, delay) == t - delay
Timeout_double(t, delay) == t + 2 * delay
Timeout(t, delay) == t + delay

\* the publish calls of one imu_callback, in order
est_publications(name, t) ==
    << [topic |-> StateTopic[name], time |-> t],
       [topic |-> StatusTopic[name], time |-> t] >>

\* what the callback leaves in the message it was handed
handed_back_corrected(e, msg) ==
    [msg EXCEPT !.gyro = << msg.gyro[1] - e.x[5], msg.gyro[2] - e.x[6],
                            msg.gyro[3] - e.x[7] - 1 >>]
handed_back(e, msg) == msg

\* AttitudeEstimator.__init__
NewEstimator(kind) ==
    [x          |-> constants(kind).x0,
     W          |-> constants(kind).W0,
     W_finite   |-> TRUE,
     t_last_imu |-> 0,
     dt         |-> 0,
     n_predict  |-> 0,
     rcvd       |-> [time |-> 0, gyro |-> Zero3]]

\* AttitudeEstimator.imu_callback: the estimator after the callback
imu_callback(e, kind, msg) ==
    Let(step_dt(msg.time, e.t_last_imu), LAMBDA dt :
    Let(predict(kind, msg.time, e.x, e.W, msg.gyro, std_gyro, sn_gyro_rw, dt),
        LAMBDA p :
        [x          |-> p.x1,
         W          |-> IF e.W_finite /\ p.ok THEN p.W1 ELSE e.W,
         W_finite   |-> e.W_finite /\ p.ok,
         t_last_imu |-> msg.time,
         dt         |-> dt,
         n_predict  |-> e.n_predict + 1,
         rcvd       |-> msg]))

\* the estimators after name's callback has run
store_est_shared(es, name, e) ==
    [n \in DOMAIN es |-> IF n = name THEN e ELSE [es[n] EXCEPT !.W = e.W]]
store_est(es, name, e) == [es EXCEPT ![name] = e]

Diag(W) == << At(W, 1, 1), At(W, 2, 2), At(W, 3, 3), At(W, 4, 4), At(W, 5, 5),
             At(W, 6, 6) >>

EmptyVehicleState == [time |-> 0, q |-> <<0, 0, 0, 0>>, b |-> Zero3, omega |-> Zero3]
EmptyStatus == [time |-> 0, n_x |-> 0, x |-> <<0, 0, 0, 0, 0, 0, 0>>,
                W |-> <<0, 0, 0, 0, 0, 0>>]
EmptyProbe == [kind |-> "mrp", x |-> constants("mrp").x0, omega |-> Zero3,
               w_g |-> Zero3, w_b |-> Zero3, dt |-> NominalDt,
               x1 |-> constants("mrp").x0, applied |-> FALSE]

\* do_sim up to core.run: Simulator(core), the three AttitudeEstimators
Constructed ==
    /\ now = 0
    /\ wake = 0
    /\ next_sub = 1
    /\ sim_x = constants("mrp").x0
    /\ sim_omega = Zero3
    /\ rnd = [g |-> Zero3, b |-> Zero3, n |-> Zero3]
    /\ est = [n \in EstNames |-> NewEstimator(Eqs[n])]
    /\ msg_sim_state = EmptyVehicleState
    /\ msg_imu = [time |-> 0, gyro |-> Zero3]
    /\ msg_state = [n \in EstNames |-> EmptyVehicleState]
    /\ msg_est_status = [n \in EstNames |-> EmptyStatus]
    /\ published = << >>

Init ==
    /\ Constructed
    /\ sim_dt \in SimDtVals
    /\ until \in UntilVals(sim_dt)
    /\ pc = "core"
    /\ ret = "timeout"
    /\ probe = EmptyProbe

----------------------------------------------------------------------------
(* core.run(until): one step of the event loop *)

CoreRun ==
    /\ pc = "core"
    /\ IF wake < until
       THEN now' = wake /\ pc' = "run"
       ELSE now' = until /\ pc' = "done"
    /\ UNCHANGED << until, wake, ret, next_sub, sim_dt, sim_x, sim_omega, rnd,
                    est, msg_sim_state, msg_imu, msg_state, msg_est_status,
                    published, probe >>

(* Simulator.run, one loop iteration in four steps *)

\* t = core.now; omega, w_g, w_b; x = simulate(...)
SimIntegrate ==
    /\ pc = "run"
    /\ \E om \in {omega_at(now)}, r \in RandnVals :
          /\ sim_omega' = om
          /\ rnd' = r
          /\ sim_x' = simulate("mrp", now, sim_x, om, process_noise(r.g),
                               process_noise(r.b), sim_dt)
    /\ pc' = "pub_sim"
    /\ UNCHANGED << now, until, wake, ret, next_sub, sim_dt, est, msg_sim_state,
                    msg_imu, msg_state, msg_est_status, published, probe >>

\* pub_sim.publish(msg_sim_state)
SimPublishState ==
    /\ pc = "pub_sim"
    /\ msg_sim_state' = [time  |-> now,
                         q     |-> get_state("mrp", sim_x).q,
                         b     |-> get_state("mrp", sim_x).b_g,
                         omega |-> sim_omega]
    /\ published' = Append(published, [topic |-> "sim_state", time |-> now])
    /\ pc' = "pub_imu"
    /\ UNCHANGED << now, until, wake, ret, next_sub, sim_dt, sim_x, sim_omega,
                    rnd, est, msg_imu, msg_state, msg_est_status, probe >>

\* pub_imu.publish(msg_imu): the subscribers' callbacks run before it returns
SimPublishImu ==
    /\ pc = "pub_imu"
    /\ msg_imu' = [time |-> now,
                   gyro |-> noisy_gyro(sim_omega, rnd.n)]
    /\ published' = Append(published, [topic |-> "imu", time |-> now])
    /\ pc' = "deliver"
    /\ next_sub' = 1
    /\ ret' = "timeout"
    /\ UNCHANGED << now, until, wake, sim_dt, sim_x, sim_omega, rnd, est,
                    msg_sim_state, msg_state, msg_est_status, probe >>

\* the next subscriber's imu_callback, whole
Deliver ==
    /\ pc = "deliver"
    /\ \E name \in {ImuSubscribers[next_sub]} :
       \E e \in {imu_callback(est[name], Eqs[name], msg_imu)} :
       \E gs \in {get_state(Eqs[name], e.x)} :
           /\ est' = store_est(est, name, e)
           /\ msg_imu' = handed_back(e, msg_imu)
           /\ msg_state' = [msg_state EXCEPT ![name] =
                  [time |-> msg_imu.time, q |-> gs.q, b |-> gs.b_g,
                   omega |-> msg_imu.gyro]]
           /\ msg_est_status' = [msg_est_status EXCEPT ![name] =
                  [time |-> msg_imu.time, n_x |-> Len(e.x), x |-> e.x,
                   W |-> Diag(e.W)]]
           /\ published' = published \o est_publications(name, msg_imu.time)
    /\ IF next_sub = Len(ImuSubscribers)
       THEN pc' = ret /\ next_sub' = 1
       ELSE pc' = pc /\ next_sub' = next_sub + 1
    /\ UNCHANGED << now, until, wake, ret, sim_dt, sim_x, sim_omega, rnd,
                    msg_sim_state, probe >>

\* yield simpy.Timeout(core, dt)
SimTimeout ==
    /\ pc = "timeout"
    /\ wake' = Timeout(now, sim_dt)
    /\ pc' = "core"
    /\ UNCHANGED << now, until, ret, next_sub, sim_dt, sim_x, sim_omega, rnd, est,
                    msg_sim_state, msg_imu, msg_state, msg_est_status, published,
                    probe >>

Next ==
    \/ CoreRun
    \/ SimIntegrate
    \/ SimPublishState
    \/ SimPublishImu
    \/ Deliver
    \/ SimTimeout

Spec == Init /\ [][Next]_vars

\* where the core's control is: the step to run and the subscriber to call
Control == << pc, next_sub >>

\* the core moves on.  Every step of Next changes Control, and a step of Next
\* is possible exactly while pc # "done", so under Spec a step of Advance that
\* changes Control is a step of Next and Advance is enabled where Next is.
Advance ==
    /\ pc # "done"
    /\ pc' \in {"core", "run", "pub_sim", "pub_imu", "deliver", "timeout", "done"}
    /\ next_sub' \in 1 .. Len(ImuSubscribers)

\* core.run keeps processing while it has not reached `until`: the running
\* process and the callbacks it calls return, and the core then takes its next
\* event
FairSpec == Spec /\ WF_Control(Advance)

----------------------------------------------------------------------------
(* Imu messages fed straight to the estimators, with any timestamps *)

\* the times published on a topic, in publication order
RECURSIVE TimesFrom(_, _, _)
TimesFrom(log, i, topic) ==
    IF i > Len(log) THEN << >>
    ELSE (IF log[i].topic = topic THEN << log[i].time >> ELSE << >>)
         \o TimesFrom(log, i + 1, topic)
TopicTimes(topic) == TimesFrom(published, 1, topic)

InitImu ==
    /\ Constructed
    /\ sim_dt = NominalDt
    /\ until = 0
    /\ pc = "feed"
    /\ ret = "feed"
    /\ probe = EmptyProbe

\* publish(msg) on the imu topic
FeedImu ==
    /\ pc = "feed"
    /\ Len(TopicTimes("imu")) < MaxMsgs
    /\ \E t \in ImuTimeVals, g \in GyroVals :
          /\ msg_imu' = [time |-> t, gyro |-> g]
          /\ published' = Append(published, [topic |-> "imu", time |-> t])
    /\ pc' = "deliver"
    /\ next_sub' = 1
    /\ ret' = "feed"
    /\ UNCHANGED << now, until, wake, sim_dt, sim_x, sim_omega, rnd, est,
                    msg_sim_state, msg_state, msg_est_status, probe >>

NextImu == FeedImu \/ Deliver

ImuSpec == InitImu /\ [][NextImu]_vars

----------------------------------------------------------------------------
(* One call of a derivation's simulate function *)

ProbeStates(kind) ==
    IF kind = "mrp"
    THEN {constants(kind).x0, <<300, -200, 100, 0, 5, -3, 2>>}
    ELSE {constants(kind).x0, <<0, S, 0, 0, 5, -3, 2>>}

InitProbe ==
    /\ Constructed
    /\ sim_dt = NominalDt
    /\ until = 0
    /\ pc = "probe"
    /\ ret = "probe"
    /\ \E kind \in Kinds, om \in OmegaVals \cup GyroVals, r \in RandnVals,
          dt \in SimDtVals :
       \E x \in ProbeStates(kind) :
          probe = [kind |-> kind, x |-> x, omega |-> om,
                   w_g |-> process_noise(r.g), w_b |-> process_noise(r.b),
                   dt |-> dt, x1 |-> x, applied |-> FALSE]

ApplySimulate ==
    /\ pc = "probe"
    /\ ~probe.applied
    /\ probe' = [probe EXCEPT
                   !.x1 = simulate(probe.kind, 0, probe.x, probe.omega, probe.w_g,
                                   probe.w_b, probe.dt),
                   !.applied = TRUE]
    /\ UNCHANGED << now, until, wake, pc, ret, next_sub, sim_dt, sim_x, sim_omega,
                    rnd, est, msg_sim_state, msg_imu, msg_state, msg_est_status,
                    published >>

ProbeSpec == InitProbe /\ [][ApplySimulate]_vars

----------------------------------------------------------------------------
(* Claims *)

\* C1: whatever the order of the timestamps, the step an estimator hands to
\* predict is msg.time - t_last_imu when that is > 0 and the nominal 1/200
\* otherwise, so it is always > 0, and t_last_imu becomes msg.time.
C1_StepPositive ==
    [][\A n \in EstNames :
          est'[n] # est[n] =>
             LET raw == msg_imu.time - est[n].t_last_imu
             IN  /\ est'[n].dt = (IF raw > 0 THEN raw ELSE NominalDt)
                 /\ est'[n].dt > 0
                 /\ est'[n].t_last_imu = msg_imu.time
                 /\ est'[n].n_predict = est[n].n_predict + 1]_vars

\* a message older than the one before it has been handled with the nominal step
C1_Witness ==
    LET ts == TopicTimes("imu")
    IN  /\ pc = "feed"
        /\ Len(ts) >= 2
        /\ ts[Len(ts)] < ts[Len(ts) - 1]
        /\ \A n \in EstNames : est[n].dt = NominalDt /\ est[n].n_predict = Len(ts)

CycleTopics ==
    << "sim_state", "imu", "est1_state", "est1_status", "est2_state",
       "est2_status", "est3_state", "est3_status" >>

\* C2: the publish calls of every cycle come in the order sim_state, imu,
\* est1_state, est1_status, est2_state, est2_status, est3_state, est3_status,
\* and when the Simulator asks for its timeout all three callbacks of the cycle
\* have run.
C2_PublicationOrder ==
    /\ \A i \in DOMAIN published :
          published[i].topic = CycleTopics[((i - 1) % 8) + 1]
    /\ pc = "timeout" =>
          /\ Len(published) > 0
          /\ Len(published) % 8 = 0
          /\ \A n \in EstNames :
                /\ est[n].n_predict = Len(published) \div 8
                /\ est[n].t_last_imu = now

C2_Witness == pc = "timeout" /\ Len(published) = 16

\* C3: in every cycle each estimator is handed the Imu message as the Simulator
\* published it, runs predict once, and publishes one state and one status
\* message stamped with that message's time.
C3_SameImuOnce ==
    pc = "timeout" =>
       /\ msg_imu = [time |-> now,
                     gyro |-> noisy_gyro(sim_omega, rnd.n)]
       /\ \A n \in EstNames :
             /\ est[n].rcvd = msg_imu
             /\ est[n].n_predict = Len(TopicTimes("imu"))
             /\ TopicTimes(StateTopic[n]) = TopicTimes("imu")
             /\ TopicTimes(StatusTopic[n]) = TopicTimes("imu")
             /\ msg_state[n].time = msg_imu.time
             /\ msg_state[n].omega = msg_imu.gyro
             /\ msg_est_status[n].time = msg_imu.time

C3_Witness ==
    /\ pc = "timeout"
    /\ Len(TopicTimes("imu")) = 2
    /\ msg_imu.gyro # sim_omega

Topics == {CycleTopics[i] : i \in DOMAIN CycleTopics}

\* C4: on every topic the time fields of successive messages never decrease.
C4_TimeMonotone ==
    \A topic \in Topics :
       LET ts == TopicTimes(topic)
       IN  \A i \in 1 .. Len(ts) - 1 : ts[i] <= ts[i + 1]

C4_Witness ==
    \A topic \in Topics :
       LET ts == TopicTimes(topic)
       IN  Len(ts) = 3 /\ ts[1] < ts[2] /\ ts[2] < ts[3]

\* C5: a run until tf ends: cycle k runs at virtual time k * sim/dt, none runs
\* later than tf, and the loop stops with the clock at tf.
C5_RunTerminates ==
    /\ [](LET ts == TopicTimes("sim_state")
          IN  \A i \in DOMAIN ts : ts[i] = (i - 1) * sim_dt /\ ts[i] <= until)
    /\ [](pc = "done" => now = until)
    /\ <>(pc = "done")

C5_Witness ==
    /\ pc = "done"
    /\ now = until
    /\ until % sim_dt # 0
    /\ Len(TopicTimes("sim_state")) = 3

\* C6: a callback changes only its own estimator and that estimator's two
\* messages; the other estimators, the truth state and the Imu message stay
\* as they were, and no Simulator step touches an estimator's x or W.
C6_Frame ==
    [][IF pc = "deliver"
       THEN /\ \A n \in EstNames \ {ImuSubscribers[next_sub]} :
                  /\ est'[n] = est[n]
                  /\ msg_state'[n] = msg_state[n]
                  /\ msg_est_status'[n] = msg_est_status[n]
            /\ sim_x' = sim_x
            /\ msg_sim_state' = msg_sim_state
            /\ msg_imu' = msg_imu
       ELSE \A n \in EstNames : est'[n].x = est[n].x /\ est'[n].W = est[n].W]_vars

\* est2 has handled the second message, est3 not yet
C6_Witness ==
    /\ pc = "deliver"
    /\ next_sub = 3
    /\ est["est2"].n_predict = 2
    /\ est["est3"].n_predict = 1
    /\ est["est2"].W # est["est3"].W

\* C7: simulate returns the RK4 step of the noisy kinematics for each of the
\* three parametrizations.
C7_SimulateNoisy ==
    probe.applied =>
       probe.x1 = x1_sim(probe.kind, 0, probe.x, probe.omega, probe.w_g,
                         probe.w_b, probe.dt)

LowerTriangular(W) == \A i \in Idx, j \in Idx : j > i => At(W, i, j) = 0

\* C8: every estimator's W is lower-triangular with a non-negative diagonal
\* after every predict.
C8_FactorShape ==
    \A n \in EstNames :
       /\ est[n].W_finite
       /\ LowerTriangular(est[n].W)
       /\ \A i \in Idx : At(est[n].W, i, i) >= 0

\* C9: the MRP rotation block of the truth state and of est1 has |r| <= 1 after
\* every simulate and every predict.
C9_MrpBounded ==
    /\ mrp_norm_sq_exact(Rot(sim_x)) <= SW
    /\ mrp_norm_sq_exact(Rot(est["est1"].x)) <= SW

\* both have switched to the shadow set
C9_Witness ==
    /\ sim_x[4] = 1
    /\ est["est1"].x[4] = 1
    /\ est["est1"].n_predict >= 2

\* C10: predict leaves the bias block alone: every estimator's bias, and the
\* bias it publishes, is (0, 0, 0) after any Imu messages.
C10_BiasFixed ==
    \A n \in EstNames :
       /\ Bias(est[n].x) = Zero3
       /\ msg_state[n].b = Zero3
       /\ Bias(msg_est_status[n].x) = Zero3

C10_Witness ==
    /\ pc = "feed"
    /\ \A n \in EstNames :
          /\ est[n].n_predict = 3
          /\ est[n].x # constants(Eqs[n]).x0
          /\ msg_state[n].omega # Zero3

====
